---- MODULE Spec2Model ----
(***************************************************************************)
(* rogger: a terminal dashboard tailing one remote log per source.         *)
(* One ingestion thread per source (ssh.rs: connect_and_tail) and the      *)
(* render/input thread (ui.rs: run_ui) share, per source, the cells        *)
(* content, scroll_position and connection_status, each behind a mutex.    *)
(* Every step below is one critical-section boundary of the code: a step   *)
(* that needs a mutex is enabled only while that mutex is free.            *)
(* main.rs holds an older generation of both threads in one file (it       *)
(* declares no module but config); it gives the start-up (the cells and    *)
(* threads main creates), and its create_layout and move_selection are     *)
(* modelled under the names create_layout_grid and move_selection_grid;    *)
(* its connect_and_tail and run_ui are the actions named Main..., which    *)
(* make up the specification MainSpec over the same cells.                 *)
(***************************************************************************)
EXTENDS Integers, Sequences, FiniteSets, TLC

\* ------------------------------------------------------------------ bounds
\* lines a source's remote tail delivers before the stream stops
MaxLines == 3
\* the max_history override of the configuration
MaxHistory == 2

\* graphemes of a line handed to wrap_line on its own
MaxLineLen == 3
\* widest pane (inner columns) wrap_line is called with on its own
MaxWidth == 3

\* most panes create_layout is called with on its own
MaxPanes == 5
\* longest side of the outer rectangle create_layout is called with
MaxSide == 5

\* tokens of a line handed to format_line on its own
MaxTokens == 3

\* --------------------------------------------------------------- constants
\* log.max_history.unwrap_or(10000)
DefaultMaxHistory == 10000

\* the configured sources, by index into log_windows
Sources == {0, 1}
window_count == Cardinality(Sources)

\* A line is the sequence of its grapheme clusters, each given by its
\* display width; read_line keeps the newline, a zero-width cluster.
\* The k-th line of a remote log: the lines of one log are pairwise
\* distinct, "long_first" logs start with a line of seven columns and get
\* shorter, "short_first" logs start with one column and get longer.
Columns(n) == [j \in 1..n |-> 1] \o <<0>>
Line(kind, k) ==
    IF kind = "long_first" THEN Columns(IF k < 7 THEN 8 - k ELSE 1)
    ELSE Columns(k)

\* terminal sizes (rows, columns) the dashboard is started in
TermHeights == {5}
TermWidths == {4}

\* The configurations (config.logs) the dashboard is started with.  Per
\* source: auth is the credential given (log.password, log.ssh_key, or
\* neither), max_history is log.max_history.unwrap_or(10000), stream is the
\* remote file `tail -f` prints.
Configs ==
    { [auth |-> (0 :> "password" @@ 1 :> "ssh_key"),
       max_history |-> (0 :> MaxHistory @@ 1 :> DefaultMaxHistory),
       stream |-> (0 :> "long_first" @@ 1 :> "long_first")],
      [auth |-> (0 :> "none" @@ 1 :> "password"),
       max_history |-> (0 :> DefaultMaxHistory @@ 1 :> MaxHistory),
       stream |-> (0 :> "long_first" @@ 1 :> "short_first")] }

\* ------------------------------------------------------- ConnectionStatus
Connected == [tag |-> "Connected"]
Error(msg) == [tag |-> "Error", msg |-> msg]
IsError(st) == st.tag = "Error"

\* -------------------------------------------------------------- arithmetic
\* usize::saturating_sub
SatSub(a, b) == IF a > b THEN a - b ELSE 0
Min(a, b) == IF a < b THEN a ELSE b
Max(a, b) == IF a > b THEN a ELSE b

VARIABLES
    \* configuration (immutable after load)
    auth,               \* Source -> credential kind
    max_history,        \* Source -> bound of the buffer
    stream,             \* Source -> the remote log tailed
    term_height,        \* terminal rows
    term_width,         \* terminal columns
    \* shared cells
    content,            \* Source -> Seq(line): Arc<Mutex<Vec<String>>>
    content_lock,       \* Source -> holder of the content mutex
    scroll_cell,        \* Source -> [cell -> usize]: the scroll_position cells;
                        \* cell 0 is the one main creates, cell 1 the one
                        \* clear_history allocates
    scroll_lock,        \* Source -> [cell -> holder]
    win_cell,           \* Source -> cell LogWindow.scroll_position points to
    connection_status,  \* Source -> ConnectionStatus
    is_maximized_flag,  \* the Arc<Mutex<bool>> handed to connect_and_tail
    \* ingestion threads
    pc,                 \* Source -> position of connect_and_tail
    nread,              \* Source -> lines read so far
    outcome,            \* Source -> how the session ended ("running" before)
    tcp_attempted,      \* Source -> TcpStream::connect was called
    since_clear,        \* Source -> lines pushed since the buffer was last cleared
    \* render/input thread (AppState and run_ui's locals)
    uiPc,
    ui_i,               \* pane being rendered
    selected_window,
    is_maximized,
    has_scrolled,
    init_done,          \* INIT (Once) has run
    content_len,        \* local of the key handlers
    frame,              \* what the last render_window call drew
    last_key,           \* "toggle" from the toggle key until the frame that
                        \* follows it is drawn, "none" otherwise
    \* a function of the program called on its own
    call                \* the call: its arguments and, once made, its result

vars == <<auth, max_history, stream, term_height, term_width, content, content_lock,
          scroll_cell, scroll_lock, win_cell, connection_status,
          is_maximized_flag, pc, nread, outcome, tcp_attempted,
          since_clear, uiPc, ui_i, selected_window, is_maximized,
          has_scrolled, init_done, content_len, frame, last_key, call>>

cfgVars == <<auth, max_history, stream, term_height, term_width,
             is_maximized_flag, call>>
ingVars == <<pc, nread, outcome, tcp_attempted>>
uiVars == <<uiPc, ui_i, selected_window, is_maximized, has_scrolled,
            init_done, content_len, frame, last_key>>

NoFrame == [pane |-> -1]
NoCall == [fn |-> "none"]

\* the process is alive: run_ui has neither returned nor panicked
Running == uiPc \notin {"quit", "panic"}

\* ----------------------------------------------------------- LineWrapper
\* The grapheme clusters: 0 is the newline read_line keeps, 3 a zero-width
\* space; 1 and 4 are two narrow letters; 2 and 5 two wide (CJK) glyphs.
Graphemes == 0..5
\* unicode_width::UnicodeWidthStr::width of one grapheme cluster
Width(grapheme) == grapheme % 3

\* the loop of wrap_line from grapheme i on, with the loop's locals
RECURSIVE wrap_from(_, _, _, _, _, _)
wrap_from(ln, i, max_width, wrapped, current_line, current_width) ==
    IF i > Len(ln)
    THEN IF current_line # <<>> THEN Append(wrapped, current_line) ELSE wrapped
    ELSE LET grapheme == ln[i]
             grapheme_width == Width(grapheme)
         IN  IF current_width + grapheme_width > max_width
             THEN LET flushed == IF current_line # <<>>
                                 THEN Append(wrapped, current_line)
                                 ELSE wrapped
                      width0 == IF current_line # <<>> THEN 0 ELSE current_width
                  IN  IF grapheme_width > max_width
                      THEN wrap_from(ln, i + 1, max_width,
                                     Append(flushed, <<grapheme>>), <<>>, width0)
                      ELSE wrap_from(ln, i + 1, max_width,
                                     flushed, <<grapheme>>, grapheme_width)
             ELSE wrap_from(ln, i + 1, max_width, wrapped,
                            Append(current_line, grapheme),
                            current_width + grapheme_width)

\* mutant: the first grapheme of the line is skipped
wrap_line_skip_first(ln, max_width) == wrap_from(ln, 2, max_width, <<>>, <<>>, 0)
\* mutant: the line is returned in one piece
wrap_line_unbroken(ln, max_width) == IF ln = <<>> THEN <<>> ELSE <<ln>>
wrap_line(ln, max_width) == wrap_from(ln, 1, max_width, <<>>, <<>>, 0)

\* render_window's loop over content: every line wrapped, in order
RECURSIVE wrapped_content(_, _)
wrapped_content(lines, inner_width) ==
    IF lines = <<>> THEN <<>>
    ELSE wrap_line(Head(lines), inner_width)
         \o wrapped_content(Tail(lines), inner_width)

\* ----------------------------------------------------------- LayoutEngine
\* ui.rs create_layout: window_count vertical bands of Percentage(100 / n);
\* the layout truncates each band and stretches the last one to the bottom.
band_height(h, n) == (h * (100 \div n)) \div 100
band_top(h, n, i) == (i * h * (100 \div n)) \div 100
create_layout(h, n) ==
    [i \in 0..(n - 1) |->
        IF i = n - 1 THEN h - band_top(h, n, i) ELSE band_height(h, n)]

\* Layout::default().direction(d).constraints(k times Percentage(100 / k))
\* .split(area): k bands along the direction, each as long as the percentage
\* says, positions truncated, the last band stretched to the end of the area
split(area, direction, k) ==
    [i \in 1..k |->
        IF direction = "Vertical"
        THEN [x |-> area.x,
              y |-> area.y + band_top(area.height, k, i - 1),
              width |-> area.width,
              height |-> IF i = k
                         THEN area.height - band_top(area.height, k, i - 1)
                         ELSE band_height(area.height, k)]
        ELSE [x |-> area.x + band_top(area.width, k, i - 1),
              y |-> area.y,
              width |-> IF i = k
                        THEN area.width - band_top(area.width, k, i - 1)
                        ELSE band_height(area.width, k),
              height |-> area.height]]

\* (window_count as f32).sqrt().ceil() as usize
ceil_sqrt(n) == CHOOSE r \in 0..n : r * r >= n /\ (r = 0 \/ (r - 1) * (r - 1) < n)
\* (window_count as f32 / rows as f32).ceil() as usize
ceil_div(n, rows) == (n + rows - 1) \div rows

\* all_chunks.extend(row_chunks), for the rows from r on
RECURSIVE extend_rows(_, _, _)
extend_rows(row_layouts, r, cols) ==
    IF r > Len(row_layouts) THEN <<>>
    ELSE split(row_layouts[r], "Horizontal", cols)
         \o extend_rows(row_layouts, r + 1, cols)

\* mutant: the cells beyond window_count are kept
truncate_nothing(chunks, n) == chunks
\* all_chunks.truncate(window_count)
truncate(chunks, n) == SubSeq(chunks, 1, Min(n, Len(chunks)))

\* main.rs create_layout: the grid of rows x cols cells, row by row
create_layout_grid(area, n) ==
    LET rows == ceil_sqrt(n)
        cols == ceil_div(n, rows)
        row_layouts == split(area, "Vertical", rows)
    IN  truncate(extend_rows(row_layouts, 1, cols), n)

\* -------------------------------------------------------- HighlightEngine
\* A line handed to format_line is a sequence of tokens, each a piece of
\* text no rule can match a part of or across: the words WARN, ERROR and
\* INFO, the two braces, and "x", a letter that belongs to no pattern.
\* Offsets count tokens.
Tokens == {"WARN", "ERROR", "INFO", "{", "}", "x"}

\* regex.find_iter(line) for a rule that is an alternation of words
RECURSIVE word_matches(_, _, _, _)
word_matches(line, word, style, pos) ==
    IF pos > Len(line) THEN <<>>
    ELSE (IF line[pos] = word
          THEN <<[start |-> pos - 1, end |-> pos, style |-> style]>>
          ELSE <<>>)
         \o word_matches(line, word, style, pos + 1)

\* regex.find_iter(line) for \{.*?\}: from the leftmost "{" to the nearest
\* "}" after it, then on from there
RECURSIVE brace_matches(_, _, _)
brace_matches(line, style, pos) ==
    LET opens == {i \in pos..Len(line) : line[i] = "{"}
    IN  IF opens = {} THEN <<>>
        ELSE LET i == CHOOSE o \in opens : \A o2 \in opens : o <= o2
                 closes == {j \in (i + 1)..Len(line) : line[j] = "}"}
             IN  IF closes = {} THEN <<>>
                 ELSE LET j == CHOOSE c \in closes : \A c2 \in closes : c <= c2
                      IN  <<[start |-> i - 1, end |-> j, style |-> style]>>
                          \o brace_matches(line, style, j + 1)

\* the first loop of format_line over the rules of create_log_formatter, in
\* the order they were added; the timestamp (Green) and IPv4 (Magenta) rules
\* need digits and match nothing in a line of Tokens
find_matches(line) ==
    word_matches(line, "WARN", "Yellow", 1)
    \o word_matches(line, "ERROR", "Red", 1)
    \o brace_matches(line, "Cyan", 1)
    \o word_matches(line, "INFO", "Blue", 1)

\* the matches that start at offset v or later, by start, ties in the order
\* they had
RECURSIVE sort_from(_, _, _)
sort_from(matches, v, top) ==
    IF v > top THEN <<>>
    ELSE SelectSeq(matches, LAMBDA m : m.start = v)
         \o sort_from(matches, v + 1, top)

\* mutant: the matches are swept in the order the rules found them
sort_nothing(matches, top) == matches
\* matches.sort_by_key(|&(start, _, _)| start), a stable sort
sort_by_key(matches, top) == sort_from(matches, 0, top)

\* line[a..b]
slice(line, a, b) == SubSeq(line, a + 1, b)
\* Span::raw, Span::styled
raw(text) == [text |-> text, style |-> "raw"]
styled(text, style) == [text |-> text, style |-> style]

\* mutant: what follows the last match is never emitted
has_remainder_never(last_match_end, len) == FALSE
\* `if last_match_end < line.len()`
has_remainder(last_match_end, len) == last_match_end < len

\* the second loop of format_line from match k on, and the trailing remainder
RECURSIVE sweep(_, _, _, _, _)
sweep(line, matches, k, last_match_end, spans) ==
    IF k > Len(matches)
    THEN IF has_remainder(last_match_end, Len(line))
         THEN Append(spans, raw(slice(line, last_match_end, Len(line))))
         ELSE spans
    ELSE LET m == matches[k]
             gap == IF m.start > last_match_end
                    THEN Append(spans, raw(slice(line, last_match_end, m.start)))
                    ELSE spans
         IN  sweep(line, matches, k + 1, m.end,
                   Append(gap, styled(slice(line, m.start, m.end), m.style)))

format_line(line) ==
    sweep(line, sort_by_key(find_matches(line), Len(line)), 1, 0, <<>>)

\* ---------------------------------------------------- HistoryBuffer (ssh.rs)
\* mutant: a line is dropped while a pane is maximized
push_unless_maximized(buf, ln) == IF is_maximized THEN buf ELSE Append(buf, ln)
\* content.push(line)
push(buf, ln) == Append(buf, ln)

\* mutant: the newest line is dropped instead of the oldest
remove_newest(buf) == SubSeq(buf, 1, Len(buf) - 1)
\* content.remove(0)
remove_oldest(buf) == Tail(buf)

\* mutant: the bound is enforced one line too late
over_limit_off_by_one(len, limit) == len > limit + 1
\* the test of `while content.len() > max_history`
over_limit(len, limit) == len > limit

\* the scroll update at the end of update_content
update_scroll(scroll_pos, len, is_max) ==
    IF ~is_max
    THEN SatSub(len, 1)
    ELSE IF scroll_pos = SatSub(len, 2) THEN SatSub(len, 1) ELSE scroll_pos

\* ------------------------------------------------------------------- Init
\* main: the cells of every source, the threads spawned, AppState
Started ==
    /\ \E cfg \in Configs :
          /\ auth = cfg.auth
          /\ max_history = cfg.max_history
          /\ stream = cfg.stream
    /\ term_height \in TermHeights
    /\ term_width \in TermWidths
    /\ content = [s \in Sources |-> <<>>]
    /\ content_lock = [s \in Sources |-> "free"]
    /\ scroll_cell = [s \in Sources |-> [c \in {0, 1} |-> 0]]
    /\ scroll_lock = [s \in Sources |-> [c \in {0, 1} |-> "free"]]
    /\ win_cell = [s \in Sources |-> 0]
    /\ connection_status = [s \in Sources |-> Connected]
    /\ is_maximized_flag = FALSE
    /\ pc = [s \in Sources |-> "connect"]
    /\ nread = [s \in Sources |-> 0]
    /\ outcome = [s \in Sources |-> "running"]
    /\ tcp_attempted = [s \in Sources |-> FALSE]
    /\ since_clear = [s \in Sources |-> <<>>]
    /\ uiPc = "render"
    /\ ui_i = 0
    /\ selected_window = 0
    /\ is_maximized = FALSE
    /\ has_scrolled = FALSE
    /\ init_done = FALSE
    /\ content_len = 0
    /\ frame = NoFrame
    /\ last_key = "none"

Init == Started /\ call = NoCall

\* ------------------------------------------- SourceSession (ssh.rs), source s
\* update_connection_status: lock, assign, unlock
update_connection_status(s, status) ==
    /\ connection_status' = [connection_status EXCEPT ![s] = status]

\* the session returns (Ok or Err); the thread ends
finish(s, how) ==
    /\ pc' = [pc EXCEPT ![s] = "done"]
    /\ outcome' = [outcome EXCEPT ![s] = how]

\* TcpStream::connect succeeds
ConnectOk(s) ==
    /\ Running /\ pc[s] = "connect"
    /\ tcp_attempted' = [tcp_attempted EXCEPT ![s] = TRUE]
    /\ pc' = [pc EXCEPT ![s] = "handshake"]
    /\ UNCHANGED <<cfgVars, content, content_lock, scroll_cell, scroll_lock,
                   win_cell, connection_status, nread,
                   outcome, since_clear, uiVars>>

\* TcpStream::connect fails: Error("Connect Err: ..."), return Err
ConnectErr(s) ==
    /\ Running /\ pc[s] = "connect"
    /\ tcp_attempted' = [tcp_attempted EXCEPT ![s] = TRUE]
    /\ update_connection_status(s, Error("Connect Err"))
    /\ finish(s, "connect")
    /\ UNCHANGED <<cfgVars, content, content_lock, scroll_cell, scroll_lock,
                   win_cell, nread, since_clear, uiVars>>

\* tcp.set_read_timeout(..)? or Session::new()..? fails after the connect:
\* `?` returns the Err, the status is not written, handshake is never called
SessionNewErr(s) ==
    /\ Running /\ pc[s] = "handshake"
    /\ finish(s, "session")
    /\ UNCHANGED <<cfgVars, content, content_lock, scroll_cell, scroll_lock,
                   win_cell, connection_status, nread,
                   tcp_attempted, since_clear, uiVars>>

\* set_read_timeout and Session::new succeed, and sess.handshake() succeeds
HandshakeOk(s) ==
    /\ Running /\ pc[s] = "handshake"
    /\ pc' = [pc EXCEPT ![s] = "authenticate"]
    /\ UNCHANGED <<cfgVars, content, content_lock, scroll_cell, scroll_lock,
                   win_cell, connection_status, nread,
                   outcome, tcp_attempted, since_clear, uiVars>>

\* set_read_timeout and Session::new succeed, and sess.handshake() fails:
\* Error("Handshake Err: ..."), return Err
HandshakeErr(s) ==
    /\ Running /\ pc[s] = "handshake"
    /\ update_connection_status(s, Error("Handshake Err"))
    /\ finish(s, "handshake")
    /\ UNCHANGED <<cfgVars, content, content_lock, scroll_cell, scroll_lock,
                   win_cell, nread, tcp_attempted,
                   since_clear, uiVars>>

\* authenticate(): password, else key file; the userauth call succeeds
AuthenticateOk(s) ==
    /\ Running /\ pc[s] = "authenticate"
    /\ auth[s] \in {"password", "ssh_key"}
    /\ pc' = [pc EXCEPT ![s] = "exec"]
    /\ UNCHANGED <<cfgVars, content, content_lock, scroll_cell, scroll_lock,
                   win_cell, connection_status, nread,
                   outcome, tcp_attempted, since_clear, uiVars>>

\* authenticate(): the userauth call fails; `?` returns the Err
AuthenticateErr(s) ==
    /\ Running /\ pc[s] = "authenticate"
    /\ auth[s] \in {"password", "ssh_key"}
    /\ finish(s, "auth")
    /\ UNCHANGED <<cfgVars, content, content_lock, scroll_cell, scroll_lock,
                   win_cell, connection_status, nread,
                   tcp_attempted, since_clear, uiVars>>

\* authenticate(): neither password nor key:
\* Err("No authentication method provided"), returned by `?`
AuthenticateNoMethod(s) ==
    /\ Running /\ pc[s] = "authenticate"
    /\ auth[s] = "none"
    /\ finish(s, "no_auth")
    /\ UNCHANGED <<cfgVars, content, content_lock, scroll_cell, scroll_lock,
                   win_cell, connection_status, nread,
                   tcp_attempted, since_clear, uiVars>>

\* channel_session() and exec("tail ... -f") succeed
ExecOk(s) ==
    /\ Running /\ pc[s] = "exec"
    /\ pc' = [pc EXCEPT ![s] = "mark_connected"]
    /\ UNCHANGED <<cfgVars, content, content_lock, scroll_cell, scroll_lock,
                   win_cell, connection_status, nread,
                   outcome, tcp_attempted, since_clear, uiVars>>

\* channel_session() or exec() fails; `?` returns the Err
ExecErr(s) ==
    /\ Running /\ pc[s] = "exec"
    /\ finish(s, "exec")
    /\ UNCHANGED <<cfgVars, content, content_lock, scroll_cell, scroll_lock,
                   win_cell, connection_status, nread,
                   tcp_attempted, since_clear, uiVars>>

\* update_connection_status(Connected)
MarkConnected(s) ==
    /\ Running /\ pc[s] = "mark_connected"
    /\ update_connection_status(s, Connected)
    /\ pc' = [pc EXCEPT ![s] = "reset_scroll"]
    /\ UNCHANGED <<cfgVars, content, content_lock, scroll_cell, scroll_lock,
                   win_cell, nread, outcome, tcp_attempted,
                   since_clear, uiVars>>

\* the block after Connected: scroll_position.lock()
ResetLockScroll(s) ==
    /\ Running /\ pc[s] = "reset_scroll"
    /\ scroll_lock[s][0] = "free"
    /\ scroll_lock' = [scroll_lock EXCEPT ![s][0] = "ing"]
    /\ pc' = [pc EXCEPT ![s] = "reset_content"]
    /\ UNCHANGED <<cfgVars, content, content_lock, scroll_cell, win_cell,
                   connection_status, nread, outcome,
                   tcp_attempted, since_clear, uiVars>>

\* ... content.lock(); *scroll_pos = content.len().saturating_sub(1); both
\* guards dropped at the end of the block
ResetScroll(s) ==
    /\ Running /\ pc[s] = "reset_content"
    /\ content_lock[s] = "free"
    /\ scroll_cell' = [scroll_cell EXCEPT ![s][0] = SatSub(Len(content[s]), 1)]
    /\ scroll_lock' = [scroll_lock EXCEPT ![s][0] = "free"]
    /\ pc' = [pc EXCEPT ![s] = "read"]
    /\ UNCHANGED <<cfgVars, content, content_lock, win_cell,
                   connection_status, nread, outcome,
                   tcp_attempted, since_clear, uiVars>>

\* read_line returns Ok(0): break, Ok(())
ReadEof(s) ==
    /\ Running /\ pc[s] = "read"
    /\ finish(s, "eof")
    /\ UNCHANGED <<cfgVars, content, content_lock, scroll_cell, scroll_lock,
                   win_cell, connection_status, nread,
                   tcp_attempted, since_clear, uiVars>>

\* mutant: the loop goes on reading after a read error
read_error_continues == "read"
\* where process_log_stream goes after the Err arm: `break`, then Ok(())
read_error_next == "done"

\* read_line returns Err: Error("Read Err (host): ..."), break, Ok(())
ReadErr(s) ==
    /\ Running /\ pc[s] = "read"
    /\ update_connection_status(s, Error("Read Err"))
    /\ pc' = [pc EXCEPT ![s] = read_error_next]
    /\ outcome' = [outcome EXCEPT ![s] = "read"]
    /\ UNCHANGED <<cfgVars, content, content_lock, scroll_cell, scroll_lock,
                   win_cell, nread, tcp_attempted,
                   since_clear, uiVars>>

\* process_log_stream: read_line returns Ok(n > 0) with the next line of
\* the log, and update_content starts: content.lock(); content.push(line)
ReadLine(s) ==
    /\ Running /\ pc[s] = "read"
    /\ nread[s] < MaxLines
    /\ content_lock[s] = "free"
    /\ nread' = [nread EXCEPT ![s] = @ + 1]
    /\ content_lock' = [content_lock EXCEPT ![s] = "ing"]
    /\ content' = [content EXCEPT ![s] =
                      push(@, Line(stream[s], nread[s] + 1))]
    /\ since_clear' = [since_clear EXCEPT ![s] =
                          Append(@, Line(stream[s], nread[s] + 1))]
    /\ pc' = [pc EXCEPT ![s] = "evict"]
    /\ UNCHANGED <<cfgVars, scroll_cell, scroll_lock, win_cell,
                   connection_status, outcome, tcp_attempted, uiVars>>

\* update_content: `while content.len() > max_history { content.remove(0) }`,
\* one iteration
UpdateEvict(s) ==
    /\ Running /\ pc[s] = "evict"
    /\ over_limit(Len(content[s]), max_history[s])
    /\ content' = [content EXCEPT ![s] = remove_oldest(@)]
    /\ UNCHANGED <<cfgVars, ingVars, content_lock, scroll_cell, scroll_lock,
                   win_cell, connection_status, since_clear, uiVars>>

\* update_content, the loop left: scroll_position.lock(); is_maximized.lock();
\* the scroll update; every guard dropped at the end of the function
UpdateScroll(s) ==
    /\ Running /\ pc[s] = "evict"
    /\ ~over_limit(Len(content[s]), max_history[s])
    /\ scroll_lock[s][0] = "free"
    /\ scroll_cell' = [scroll_cell EXCEPT ![s][0] =
                          update_scroll(@, Len(content[s]), is_maximized_flag)]
    /\ content_lock' = [content_lock EXCEPT ![s] = "free"]
    /\ pc' = [pc EXCEPT ![s] = "read"]
    /\ UNCHANGED <<cfgVars, content, scroll_lock, win_cell, connection_status,
                   nread, outcome, tcp_attempted, since_clear, uiVars>>

Ingest(s) ==
    \/ ConnectOk(s) \/ ConnectErr(s)
    \/ SessionNewErr(s) \/ HandshakeOk(s) \/ HandshakeErr(s)
    \/ AuthenticateOk(s) \/ AuthenticateErr(s) \/ AuthenticateNoMethod(s)
    \/ ExecOk(s) \/ ExecErr(s)
    \/ MarkConnected(s) \/ ResetLockScroll(s) \/ ResetScroll(s)
    \/ ReadLine(s)
    \/ ReadEof(s) \/ ReadErr(s)
    \/ UpdateEvict(s) \/ UpdateScroll(s)

\* --------------------------------------------------- Dashboard (ui.rs), run_ui
\* the pane the selected LogWindow's scroll_position currently points to
sel_cell == win_cell[selected_window]

\* top of `loop`: the next terminal.draw starts with this pane
first_pane(maximized, selected) == IF maximized THEN selected ELSE 0

\* the handler is over: back to the top of the loop
loop_top(maximized, selected) ==
    /\ uiPc' = "render"
    /\ ui_i' = first_pane(maximized, selected)
    /\ content_len' = 0
    /\ frame' = NoFrame

\* area handed to render_window for pane i: f.size() when maximized,
\* chunks[i] otherwise
area_height(i) ==
    IF is_maximized THEN term_height
    ELSE create_layout(term_height, window_count)[i]

\* mutant: the position is only ever clamped, never moved to the tail
render_scroll_clamp_only(scroll_position, total_lines, height, maximized, scrolled) ==
    Min(scroll_position, SatSub(total_lines, height))
\* render_window: the recomputation of *scroll_position
render_scroll(scroll_position, total_lines, height, maximized, scrolled) ==
    IF ~maximized \/ ~scrolled
    THEN SatSub(total_lines, height)
    ELSE Min(scroll_position, SatSub(total_lines, height))

\* wrapped_content.into_iter().skip(start).take(height)
skip_take(wrapped, start, height) ==
    SubSeq(wrapped, start + 1, Min(start + height, Len(wrapped)))

log_line(sub) == [style |-> "log", text |-> sub]
error_line(msg) == [style |-> "error", text |-> msg]

\* the visible lines before the status is looked at
visible_text(wrapped, start, height) ==
    [k \in 1..Len(skip_take(wrapped, start, height)) |->
        log_line(skip_take(wrapped, start, height)[k])]

\* `text[height - 1] = ...` is reached with height = 0: the index underflows
error_line_panics(text, height) == Len(text) >= height /\ height = 0

\* the Error arm of render_window: push when there is room, else overwrite
\* the last of the `height` lines
with_error_line(text, height, msg) ==
    IF Len(text) < height
    THEN Append(text, error_line(msg))
    ELSE [text EXCEPT ![height] = error_line(msg)]

\* render_window, pane ui_i: window.content.lock()
RenderLockContent ==
    /\ uiPc = "render"
    /\ content_lock[ui_i] = "free"
    /\ content_lock' = [content_lock EXCEPT ![ui_i] = "ui"]
    /\ uiPc' = "render_draw"
    /\ frame' = NoFrame
    /\ UNCHANGED <<cfgVars, ingVars, content, scroll_cell, scroll_lock,
                   win_cell, connection_status, since_clear,
                   ui_i, selected_window, is_maximized, has_scrolled,
                   init_done, content_len>>
    /\ UNCHANGED last_key

\* render_window with content held: window.scroll_position.lock(),
\* window.connection_status.lock() (a status guard is only ever held within
\* one step, so that lock is free), then, with the three guards held: wrap, recompute the scroll
\* position, cut the visible lines, place the error draw; the guards
\* are dropped on return.  Then the next pane, or the end of terminal.draw.
RenderDraw ==
    /\ uiPc = "render_draw"
    /\ scroll_lock[ui_i][win_cell[ui_i]] = "free"
    /\ LET i == ui_i
           cell == win_cell[i]
           inner_width == term_width - 2
           height == area_height(i) - 2
           wrapped == wrapped_content(content[i], inner_width)
           total_lines == Len(wrapped)
           title_scroll == scroll_cell[i][cell]
           start == render_scroll(title_scroll, total_lines, height,
                                  is_maximized, has_scrolled)
           text == visible_text(wrapped, start, height)
           status == connection_status[i]
           panics == IsError(status) /\ error_line_panics(text, height)
           last == is_maximized \/ i = window_count - 1
       IN  /\ scroll_cell' = [scroll_cell EXCEPT ![i][cell] = start]
           /\ content_lock' = [content_lock EXCEPT ![i] = "free"]
           /\ IF panics
              THEN /\ uiPc' = "panic"
                   /\ ui_i' = i
                   /\ frame' = NoFrame
                   /\ last_key' = "none"
              ELSE /\ frame' = [pane |-> i,
                                title_scroll |-> title_scroll,
                                scroll |-> start,
                                total_lines |-> total_lines,
                                height |-> height,
                                maximized |-> is_maximized,
                                scrolled |-> has_scrolled,
                                status |-> status,
                                key |-> last_key,
                                text |-> IF IsError(status)
                                         THEN with_error_line(text, height,
                                                              status.msg)
                                         ELSE text]
                   /\ uiPc' = IF ~last THEN "render"
                              ELSE IF init_done THEN "poll" ELSE "init_once"
                   /\ ui_i' = IF last THEN 0 ELSE i + 1
                   /\ last_key' = IF last THEN "none" ELSE last_key
    /\ UNCHANGED <<cfgVars, ingVars, content, scroll_lock, win_cell,
                   connection_status, since_clear, selected_window,
                   is_maximized, has_scrolled, init_done, content_len>>

\* mutant: the pane after the selected one is cleared
clear_target_next == (selected_window + 1) % window_count
\* &mut app_state.log_windows[app_state.selected_window]
clear_target == selected_window

\* clear_history: content.lock(), content.clear(), and a NEW cell for
\* window.scroll_position (Arc::new(Mutex::new(0)))
clear_history ==
    /\ content_lock[clear_target] = "free"
    /\ content' = [content EXCEPT ![clear_target] = <<>>]
    /\ win_cell' = [win_cell EXCEPT ![clear_target] = 1]
    /\ scroll_cell' = [scroll_cell EXCEPT ![clear_target][1] = 0]
    /\ since_clear' = [since_clear EXCEPT ![clear_target] = <<>>]

\* INIT.call_once(|| clear_history(app_state)) after the first frame
InitOnce ==
    /\ uiPc = "init_once"
    /\ clear_history
    /\ init_done' = TRUE
    /\ uiPc' = "poll"
    /\ frame' = NoFrame
    /\ UNCHANGED <<cfgVars, ingVars, content_lock, scroll_lock,
                   connection_status, ui_i, selected_window,
                   is_maximized, has_scrolled, content_len>>
    /\ UNCHANGED last_key

\* event::poll times out, or the event is not a key the match names
PollNoKey ==
    /\ uiPc = "poll"
    /\ loop_top(is_maximized, selected_window)
    /\ UNCHANGED <<cfgVars, ingVars, content, content_lock, scroll_cell,
                   scroll_lock, win_cell, connection_status,
                   since_clear, selected_window, is_maximized, has_scrolled,
                   init_done>>
    /\ UNCHANGED last_key

\* 'q' or Ctrl-C: break
KeyQuit ==
    /\ uiPc = "poll"
    /\ uiPc' = "quit"
    /\ frame' = NoFrame
    /\ UNCHANGED <<cfgVars, ingVars, content, content_lock, scroll_cell,
                   scroll_lock, win_cell, connection_status,
                   since_clear, ui_i, selected_window, is_maximized,
                   has_scrolled, init_done, content_len>>
    /\ UNCHANGED last_key

\* mutant: the toggle leaves has_scrolled as it was
toggle_has_scrolled_kept == has_scrolled
\* app_state.has_scrolled = false
toggle_has_scrolled == FALSE

\* Enter or 'm' in ui.rs run_ui: flip is_maximized, has_scrolled = false;
\* the handler goes on to window.content.lock().  (The arm of main.rs's own
\* run_ui is MainKeyToggle.)
KeyToggle ==
    /\ uiPc = "poll"
    /\ is_maximized' = ~is_maximized
    /\ has_scrolled' = toggle_has_scrolled
    /\ uiPc' = "toggle_len"
    /\ last_key' = "toggle"
    /\ frame' = NoFrame
    /\ UNCHANGED <<cfgVars, ingVars, content, content_lock, scroll_cell,
                   scroll_lock, win_cell, connection_status,
                   since_clear, ui_i, selected_window, init_done,
                   content_len>>

\* ... let content_len = window.content.lock().unwrap().len(); the guard is
\* dropped at the end of the statement
ToggleLen ==
    /\ uiPc = "toggle_len"
    /\ content_lock[selected_window] = "free"
    /\ content_len' = Len(content[selected_window])
    /\ uiPc' = "toggle_scroll"
    /\ UNCHANGED <<cfgVars, ingVars, content, content_lock, scroll_cell,
                   scroll_lock, win_cell, connection_status,
                   since_clear, ui_i, selected_window, is_maximized,
                   has_scrolled, init_done, frame, last_key>>

\* ... *scroll_position = content_len.saturating_sub(1)
ToggleScroll ==
    /\ uiPc = "toggle_scroll"
    /\ scroll_lock[selected_window][sel_cell] = "free"
    /\ scroll_cell' = [scroll_cell EXCEPT ![selected_window][sel_cell] =
                          SatSub(content_len, 1)]
    /\ loop_top(is_maximized, selected_window)
    /\ UNCHANGED <<cfgVars, ingVars, content, content_lock, scroll_lock,
                   win_cell, connection_status, since_clear,
                   selected_window, is_maximized, has_scrolled, init_done>>
    /\ UNCHANGED last_key

ScrollDirections == {"Up", "Down", "PageUp", "PageDown", "Top", "Bottom"}
MoveDirections == {"Up", "Down", "Left", "Right"}

\* scroll_log: the match on the direction
scroll_log(dir, scroll_position, len, page_size) ==
    CASE dir = "Up" ->
            IF scroll_position > 0 THEN scroll_position - 1 ELSE scroll_position
      [] dir = "Down" ->
            IF scroll_position < SatSub(len, page_size)
            THEN scroll_position + 1 ELSE scroll_position
      [] dir = "PageUp" -> SatSub(scroll_position, page_size)
      [] dir = "PageDown" ->
            Min(scroll_position + page_size, SatSub(len, page_size))
      [] dir = "Top" -> 0
      [] dir = "Bottom" -> SatSub(len, page_size)

\* Up, Down, PageUp, PageDown, Home or End while maximized: scroll_log
\* reads content.len().  Nothing looks at the direction before scroll_log
\* takes the scroll_position guard, so which of the six keys was pressed is
\* drawn in ScrollLog.
KeyScroll ==
    /\ uiPc = "poll"
    /\ is_maximized
    /\ uiPc' = "scroll_len"
    /\ frame' = NoFrame
    /\ UNCHANGED <<cfgVars, ingVars, content, content_lock, scroll_cell,
                   scroll_lock, win_cell, connection_status,
                   since_clear, ui_i, selected_window, is_maximized,
                   has_scrolled, init_done, content_len>>
    /\ UNCHANGED last_key

\* scroll_log: let content_len = window.content.lock().unwrap().len(); the
\* guard is dropped at the end of the statement
ScrollLen ==
    /\ uiPc = "scroll_len"
    /\ content_lock[selected_window] = "free"
    /\ content_len' = Len(content[selected_window])
    /\ uiPc' = "scroll_log"
    /\ UNCHANGED <<cfgVars, ingVars, content, content_lock, scroll_cell,
                   scroll_lock, win_cell, connection_status,
                   since_clear, ui_i, selected_window, is_maximized,
                   has_scrolled, init_done, frame, last_key>>

\* mutant: has_scrolled is set by every navigation key
scrolled_after_always(old_scroll_position, new_scroll_position, scrolled) == TRUE
\* `if *scroll_position != old_scroll_position { has_scrolled = true }`
scrolled_after(old_scroll_position, new_scroll_position, scrolled) ==
    IF new_scroll_position # old_scroll_position THEN TRUE ELSE scrolled

\* scroll_log with the scroll_position guard: move, and set has_scrolled
\* when the position changed
ScrollLog(dir) ==
    /\ uiPc = "scroll_log"
    /\ scroll_lock[selected_window][sel_cell] = "free"
    /\ LET old_scroll_position == scroll_cell[selected_window][sel_cell]
           page_size == SatSub(term_height, 2)
           new == scroll_log(dir, old_scroll_position, content_len,
                             page_size)
       IN  /\ scroll_cell' = [scroll_cell EXCEPT
                                 ![selected_window][sel_cell] = new]
           /\ has_scrolled' = scrolled_after(old_scroll_position, new,
                                             has_scrolled)
    /\ loop_top(is_maximized, selected_window)
    /\ UNCHANGED <<cfgVars, ingVars, content, content_lock, scroll_lock,
                   win_cell, connection_status, since_clear,
                   selected_window, is_maximized, init_done>>
    /\ UNCHANGED last_key

\* mutant: Down moves on without looking at the number of panes
move_selection_unclamped(selected, dir, count) == IF dir = "Down" THEN selected + 1 ELSE selected
\* ui.rs move_selection: one column, Up and Down clamp, Left and Right do
\* nothing
move_selection(selected, dir, count) ==
    CASE dir = "Up" -> IF selected > 0 THEN selected - 1 ELSE selected
      [] dir = "Down" -> IF selected < count - 1 THEN selected + 1 ELSE selected
      [] OTHER -> selected

\* main.rs move_selection: the selection moves on the rows x cols grid of
\* create_layout, around the edges of the full grid, and stays where it is
\* when the cell it would move to holds no pane
move_selection_grid(selected, dir, count) ==
    LET rows == ceil_sqrt(count)
        cols == ceil_div(count, rows)
        current_row == selected \div cols
        current_col == selected % cols
        new_row == CASE dir = "Up" -> IF current_row > 0 THEN current_row - 1
                                      ELSE rows - 1
                     [] dir = "Down" -> (current_row + 1) % rows
                     [] OTHER -> current_row
        new_col == CASE dir = "Left" -> IF current_col > 0 THEN current_col - 1
                                        ELSE cols - 1
                     [] dir = "Right" -> (current_col + 1) % cols
                     [] OTHER -> current_col
        new_index == new_row * cols + new_col
    IN  IF new_index < count THEN new_index ELSE selected

\* an arrow key while not maximized
KeyMove(dir) ==
    /\ uiPc = "poll"
    /\ ~is_maximized
    /\ selected_window' = move_selection(selected_window, dir, window_count)
    /\ loop_top(is_maximized, selected_window')
    /\ UNCHANGED <<cfgVars, ingVars, content, content_lock, scroll_cell,
                   scroll_lock, win_cell, connection_status,
                   since_clear, is_maximized, has_scrolled, init_done>>
    /\ UNCHANGED last_key

\* Left or Right while maximized: the arm is empty
KeySideways ==
    /\ uiPc = "poll"
    /\ is_maximized
    /\ loop_top(is_maximized, selected_window)
    /\ UNCHANGED <<cfgVars, ingVars, content, content_lock, scroll_cell,
                   scroll_lock, win_cell, connection_status,
                   since_clear, selected_window, is_maximized, has_scrolled,
                   init_done, last_key>>

\* 'r' is read: the handler calls clear_history, which starts with
\* window.content.lock()
KeyClearRead ==
    /\ uiPc = "poll"
    /\ uiPc' = "clear"
    /\ frame' = NoFrame
    /\ UNCHANGED <<cfgVars, ingVars, content, content_lock, scroll_cell,
                   scroll_lock, win_cell, connection_status,
                   since_clear, ui_i, selected_window, is_maximized,
                   has_scrolled, init_done, content_len, last_key>>

\* 'r': clear_history with the content guard, has_scrolled = false
KeyClear ==
    /\ uiPc = "clear"
    /\ clear_history
    /\ has_scrolled' = FALSE
    /\ loop_top(is_maximized, selected_window)
    /\ UNCHANGED <<cfgVars, ingVars, content_lock, scroll_lock,
                   connection_status, selected_window,
                   is_maximized, init_done>>
    /\ UNCHANGED last_key

Ui ==
    \/ RenderLockContent \/ RenderDraw
    \/ InitOnce
    \/ PollNoKey \/ KeyQuit
    \/ KeyToggle \/ ToggleLen \/ ToggleScroll
    \/ KeyScroll \/ ScrollLen
    \/ \E dir \in ScrollDirections : ScrollLog(dir)
    \/ \E dir \in MoveDirections : KeyMove(dir)
    \/ KeySideways
    \/ KeyClearRead \/ KeyClear

Next == Ui \/ \E s \in Sources : Ingest(s)

Spec == Init /\ [][Next]_vars

\* ======================================================================
\* main.rs: connect_and_tail and run_ui of the crate root, over the same
\* cells.  AppState.is_scrolling of main.rs is held in the variable
\* has_scrolled; the Arc<Mutex<bool>> main creates (main.rs:80) and hands to
\* every connect_and_tail is is_maximized_flag, which nothing writes.
\* ======================================================================
is_scrolling == has_scrolled

\* str::trim: the newlines at both ends are gone (a zero-width space is not
\* white space)
RECURSIVE trim_start(_)
trim_start(ln) ==
    IF ln # <<>> /\ Head(ln) = 0 THEN trim_start(Tail(ln)) ELSE ln
RECURSIVE trim_end(_)
trim_end(ln) ==
    IF ln # <<>> /\ ln[Len(ln)] = 0
    THEN trim_end(SubSeq(ln, 1, Len(ln) - 1)) ELSE ln
trim(ln) == trim_end(trim_start(ln))

\* `while content.len() > max_history { content.remove(0); }`
RECURSIVE evict(_, _)
evict(buf, limit) ==
    IF over_limit(Len(buf), limit) THEN evict(remove_oldest(buf), limit)
    ELSE buf

\* the scroll update of connect_and_tail's Ok arm
tail_scroll(scroll_pos, len, scrolling) ==
    IF ~scrolling THEN SatSub(len, 1) ELSE SatSub(scroll_pos, 1)

\* TcpStream::connect succeeds
MainConnectOk(s) ==
    /\ Running /\ pc[s] = "connect"
    /\ tcp_attempted' = [tcp_attempted EXCEPT ![s] = TRUE]
    /\ pc' = [pc EXCEPT ![s] = "handshake"]
    /\ UNCHANGED <<cfgVars, content, content_lock, scroll_cell, scroll_lock,
                   win_cell, connection_status, nread,
                   outcome, since_clear, uiVars>>

\* TcpStream::connect fails: Error("Connect Err: ..."), return Err
MainConnectErr(s) ==
    /\ Running /\ pc[s] = "connect"
    /\ tcp_attempted' = [tcp_attempted EXCEPT ![s] = TRUE]
    /\ connection_status' = [connection_status EXCEPT ![s] = Error("Connect Err")]
    /\ finish(s, "connect")
    /\ UNCHANGED <<cfgVars, content, content_lock, scroll_cell, scroll_lock,
                   win_cell, nread, since_clear, uiVars>>

\* Session::new().unwrap() on an Err: the thread panics, the status is not
\* written (the process goes on: the panic is the spawned thread's)
MainSessionNewPanics(s) ==
    /\ Running /\ pc[s] = "handshake"
    /\ finish(s, "session")
    /\ UNCHANGED <<cfgVars, content, content_lock, scroll_cell, scroll_lock,
                   win_cell, connection_status, nread,
                   tcp_attempted, since_clear, uiVars>>

\* Session::new succeeds and sess.handshake() succeeds
MainHandshakeOk(s) ==
    /\ Running /\ pc[s] = "handshake"
    /\ pc' = [pc EXCEPT ![s] = "authenticate"]
    /\ UNCHANGED <<cfgVars, content, content_lock, scroll_cell, scroll_lock,
                   win_cell, connection_status, nread,
                   outcome, tcp_attempted, since_clear, uiVars>>

\* sess.handshake() fails: Error("Connect Err: ..."), return Err
MainHandshakeErr(s) ==
    /\ Running /\ pc[s] = "handshake"
    /\ connection_status' = [connection_status EXCEPT ![s] = Error("Connect Err")]
    /\ finish(s, "handshake")
    /\ UNCHANGED <<cfgVars, content, content_lock, scroll_cell, scroll_lock,
                   win_cell, nread, tcp_attempted,
                   since_clear, uiVars>>

\* userauth_password or userauth_pubkey_file succeeds
MainAuthenticateOk(s) ==
    /\ Running /\ pc[s] = "authenticate"
    /\ auth[s] \in {"password", "ssh_key"}
    /\ pc' = [pc EXCEPT ![s] = "exec"]
    /\ UNCHANGED <<cfgVars, content, content_lock, scroll_cell, scroll_lock,
                   win_cell, connection_status, nread,
                   outcome, tcp_attempted, since_clear, uiVars>>

\* the userauth call fails; `?` returns the Err
MainAuthenticateErr(s) ==
    /\ Running /\ pc[s] = "authenticate"
    /\ auth[s] \in {"password", "ssh_key"}
    /\ finish(s, "auth")
    /\ UNCHANGED <<cfgVars, content, content_lock, scroll_cell, scroll_lock,
                   win_cell, connection_status, nread,
                   tcp_attempted, since_clear, uiVars>>

\* neither password nor key: Err("No authentication method provided")
MainAuthenticateNoMethod(s) ==
    /\ Running /\ pc[s] = "authenticate"
    /\ auth[s] = "none"
    /\ finish(s, "no_auth")
    /\ UNCHANGED <<cfgVars, content, content_lock, scroll_cell, scroll_lock,
                   win_cell, connection_status, nread,
                   tcp_attempted, since_clear, uiVars>>

\* channel_session() and exec("tail ... -n 5 -f") succeed
MainExecOk(s) ==
    /\ Running /\ pc[s] = "exec"
    /\ pc' = [pc EXCEPT ![s] = "mark_connected"]
    /\ UNCHANGED <<cfgVars, content, content_lock, scroll_cell, scroll_lock,
                   win_cell, connection_status, nread,
                   outcome, tcp_attempted, since_clear, uiVars>>

\* channel_session() or exec() fails; `?` returns the Err
MainExecErr(s) ==
    /\ Running /\ pc[s] = "exec"
    /\ finish(s, "exec")
    /\ UNCHANGED <<cfgVars, content, content_lock, scroll_cell, scroll_lock,
                   win_cell, connection_status, nread,
                   tcp_attempted, since_clear, uiVars>>

\* *connection_status.lock().unwrap() = ConnectionStatus::Connected
MainMarkConnected(s) ==
    /\ Running /\ pc[s] = "mark_connected"
    /\ connection_status' = [connection_status EXCEPT ![s] = Connected]
    /\ pc' = [pc EXCEPT ![s] = "read"]
    /\ UNCHANGED <<cfgVars, content, content_lock, scroll_cell, scroll_lock,
                   win_cell, nread, outcome, tcp_attempted,
                   since_clear, uiVars>>

\* read_line returns Ok(0): break, Ok(())
MainReadEof(s) ==
    /\ Running /\ pc[s] = "read"
    /\ finish(s, "eof")
    /\ UNCHANGED <<cfgVars, content, content_lock, scroll_cell, scroll_lock,
                   win_cell, connection_status, nread,
                   tcp_attempted, since_clear, uiVars>>

\* read_line returns Err: Error("Read Err: (host): ..."), break, Ok(())
MainReadErr(s) ==
    /\ Running /\ pc[s] = "read"
    /\ connection_status' = [connection_status EXCEPT ![s] = Error("Read Err")]
    /\ finish(s, "read")
    /\ UNCHANGED <<cfgVars, content, content_lock, scroll_cell, scroll_lock,
                   win_cell, nread, tcp_attempted,
                   since_clear, uiVars>>

\* read_line returns Ok(n > 0): content.lock(), push the trimmed line, evict
\* down to max_history; the arm goes on to scroll_position.lock() with the
\* content guard held
MainReadLine(s) ==
    /\ Running /\ pc[s] = "read"
    /\ nread[s] < MaxLines
    /\ content_lock[s] = "free"
    /\ nread' = [nread EXCEPT ![s] = @ + 1]
    /\ content_lock' = [content_lock EXCEPT ![s] = "ing"]
    /\ content' = [content EXCEPT ![s] =
                      evict(push(@, trim(Line(stream[s], nread[s] + 1))),
                            max_history[s])]
    /\ pc' = [pc EXCEPT ![s] = "scroll"]
    /\ UNCHANGED <<cfgVars, scroll_cell, scroll_lock, win_cell,
                   connection_status, outcome, tcp_attempted, since_clear,
                   uiVars>>

\* ... scroll_position.lock(), is_scrolling.lock(), the scroll update; the
\* guards are dropped at the end of the arm.  The cell is the one main
\* created (cell 0), whatever the LogWindow points to by now.
MainUpdateScroll(s) ==
    /\ Running /\ pc[s] = "scroll"
    /\ scroll_lock[s][0] = "free"
    /\ scroll_cell' = [scroll_cell EXCEPT ![s][0] =
                          tail_scroll(@, Len(content[s]), is_maximized_flag)]
    /\ content_lock' = [content_lock EXCEPT ![s] = "free"]
    /\ pc' = [pc EXCEPT ![s] = "read"]
    /\ UNCHANGED <<cfgVars, content, scroll_lock, win_cell, connection_status,
                   nread, outcome, tcp_attempted, since_clear, uiVars>>

MainIngest(s) ==
    \/ MainConnectOk(s) \/ MainConnectErr(s)
    \/ MainSessionNewPanics(s) \/ MainHandshakeOk(s) \/ MainHandshakeErr(s)
    \/ MainAuthenticateOk(s) \/ MainAuthenticateErr(s)
    \/ MainAuthenticateNoMethod(s)
    \/ MainExecOk(s) \/ MainExecErr(s)
    \/ MainMarkConnected(s)
    \/ MainReadLine(s) \/ MainUpdateScroll(s)
    \/ MainReadEof(s) \/ MainReadErr(s)

\* ---- run_ui of main.rs
\* f.size()
screen == [x |-> 0, y |-> 0, width |-> term_width, height |-> term_height]

\* the rectangle pane i is drawn into: f.size() in render_maximized_window,
\* chunks[i] of create_layout in render_normal_layout
main_rect(i) ==
    IF is_maximized THEN screen
    ELSE create_layout_grid(screen, window_count)[i + 1]

\* the loop over content of both renderers: total_lines counts the wrapped
\* sub-lines pushed, and both loops break once it reaches
\* scroll_position + height
RECURSIVE count_total_lines(_, _, _, _)
count_total_lines(lines, inner_width, total_lines, limit) ==
    IF lines = <<>> THEN total_lines
    ELSE LET wrapped == Len(wrap_line(Head(lines), inner_width))
             after == IF wrapped = 0 THEN total_lines
                      ELSE Min(total_lines + wrapped,
                               Max(limit, total_lines + 1))
         IN  IF after >= limit THEN after
             ELSE count_total_lines(Tail(lines), inner_width, after, limit)

\* `let start = if app_state.is_scrolling { ... } else { ... }`
render_start(scrolling, total_lines, height, scroll_position) ==
    IF scrolling
    THEN Min(SatSub(total_lines, height), scroll_position)
    ELSE SatSub(total_lines, height)

\* a renderer reaches pane ui_i: content.lock()
MainRenderLockContent ==
    /\ uiPc = "render"
    /\ content_lock[ui_i] = "free"
    /\ content_lock' = [content_lock EXCEPT ![ui_i] = "ui"]
    /\ uiPc' = "render_draw"
    /\ frame' = NoFrame
    /\ UNCHANGED <<cfgVars, ingVars, content, scroll_cell, scroll_lock,
                   win_cell, connection_status, since_clear,
                   ui_i, selected_window, is_maximized, has_scrolled,
                   init_done, content_len, last_key>>

\* pane ui_i with content held: scroll_position is read (the guard is gone
\* at the end of the statement), connection_status.lock(), then wrap and
\* count up to scroll_position + height, compute start, cut the visible
\* lines, place the error line, draw; scroll_position is not written.  Then
\* the next pane, or the end of terminal.draw.
MainRenderDraw ==
    /\ uiPc = "render_draw"
    /\ scroll_lock[ui_i][win_cell[ui_i]] = "free"
    /\ LET i == ui_i
           inner_width == main_rect(i).width - 2
           height == main_rect(i).height - 2
           scroll_position == scroll_cell[i][win_cell[i]]
           total_lines == count_total_lines(content[i], inner_width, 0,
                                            scroll_position + height)
           pushed == SubSeq(wrapped_content(content[i], inner_width),
                            1, total_lines)
           start == render_start(is_scrolling, total_lines, height,
                                 scroll_position)
           text == visible_text(pushed, start, height)
           status == connection_status[i]
           panics == IsError(status) /\ error_line_panics(text, height)
           last == is_maximized \/ i = window_count - 1
       IN  /\ content_lock' = [content_lock EXCEPT ![i] = "free"]
           /\ IF panics
              THEN /\ uiPc' = "panic"
                   /\ ui_i' = i
                   /\ frame' = NoFrame
                   /\ last_key' = "none"
              ELSE /\ frame' = [pane |-> i,
                                title_scroll |-> scroll_position,
                                start |-> start,
                                total_lines |-> total_lines,
                                height |-> height,
                                maximized |-> is_maximized,
                                scrolling |-> is_scrolling,
                                status |-> status,
                                key |-> last_key,
                                text |-> IF IsError(status)
                                         THEN with_error_line(text, height,
                                                              status.msg)
                                         ELSE text]
                   /\ uiPc' = IF last THEN "poll" ELSE "render"
                   /\ ui_i' = IF last THEN 0 ELSE i + 1
                   /\ last_key' = IF last THEN "none" ELSE last_key
    /\ UNCHANGED <<cfgVars, ingVars, content, scroll_cell, scroll_lock,
                   win_cell, connection_status, since_clear, selected_window,
                   is_maximized, has_scrolled, init_done, content_len>>

\* event::poll times out, the event is no key the match names, or the key's
\* arm is empty in this mode (Left, Right while is_scrolling; PageUp,
\* PageDown, Home, End while not)
MainPollNoKey ==
    /\ uiPc = "poll"
    /\ loop_top(is_maximized, selected_window)
    /\ UNCHANGED <<cfgVars, ingVars, content, content_lock, scroll_cell,
                   scroll_lock, win_cell, connection_status,
                   since_clear, selected_window, is_maximized, has_scrolled,
                   init_done, last_key>>

\* 'q' or Ctrl-C: break
MainKeyQuit ==
    /\ uiPc = "poll"
    /\ uiPc' = "quit"
    /\ frame' = NoFrame
    /\ UNCHANGED <<cfgVars, ingVars, content, content_lock, scroll_cell,
                   scroll_lock, win_cell, connection_status,
                   since_clear, ui_i, selected_window, is_maximized,
                   has_scrolled, init_done, content_len, last_key>>

\* Enter or 'm': is_maximized and is_scrolling are both flipped; the arm
\* goes on to window.content.lock()
MainKeyToggle ==
    /\ uiPc = "poll"
    /\ is_maximized' = ~is_maximized
    /\ has_scrolled' = ~is_scrolling
    /\ uiPc' = "toggle_len"
    /\ last_key' = "toggle"
    /\ frame' = NoFrame
    /\ UNCHANGED <<cfgVars, ingVars, content, content_lock, scroll_cell,
                   scroll_lock, win_cell, connection_status,
                   since_clear, ui_i, selected_window, init_done,
                   content_len>>

\* ... let content_len = window.content.lock().unwrap().len(); the guard is
\* dropped at the end of the statement
MainToggleLen ==
    /\ uiPc = "toggle_len"
    /\ content_lock[selected_window] = "free"
    /\ content_len' = Len(content[selected_window])
    /\ uiPc' = "toggle_scroll"
    /\ UNCHANGED <<cfgVars, ingVars, content, content_lock, scroll_cell,
                   scroll_lock, win_cell, connection_status,
                   since_clear, ui_i, selected_window, is_maximized,
                   has_scrolled, init_done, frame, last_key>>

\* ... window.scroll_position.lock();
\* *scroll_position = content_len.saturating_sub(1)
MainToggleScroll ==
    /\ uiPc = "toggle_scroll"
    /\ scroll_lock[selected_window][sel_cell] = "free"
    /\ scroll_cell' = [scroll_cell EXCEPT ![selected_window][sel_cell] =
                          SatSub(content_len, 1)]
    /\ loop_top(is_maximized, selected_window)
    /\ UNCHANGED <<cfgVars, ingVars, content, content_lock, scroll_lock,
                   win_cell, connection_status, since_clear,
                   selected_window, is_maximized, has_scrolled, init_done,
                   last_key>>

\* main.rs scroll_log: the match on the direction
scroll_log_main(dir, scroll_position, content_len_, page_size) ==
    CASE dir = "Up" ->
            IF scroll_position > 0 THEN scroll_position - 1 ELSE scroll_position
      [] dir = "Down" ->
            IF scroll_position < SatSub(content_len_, 1)
            THEN scroll_position + 1 ELSE scroll_position
      [] dir = "PageUp" -> SatSub(scroll_position, page_size)
      [] dir = "PageDown" ->
            Min(scroll_position + page_size, SatSub(content_len_, 1))
      [] dir = "Top" -> 0
      [] dir = "Bottom" -> SatSub(content_len_, 1)

\* Up, Down, PageUp, PageDown, Home or End while is_scrolling: scroll_log,
\* which first reads content.len().  Nothing looks at the direction before
\* scroll_log holds the scroll_position guard, so which of the six keys was
\* pressed is drawn in MainScrollLog.
MainKeyScroll ==
    /\ uiPc = "poll"
    /\ is_scrolling
    /\ uiPc' = "scroll_len"
    /\ frame' = NoFrame
    /\ UNCHANGED <<cfgVars, ingVars, content, content_lock, scroll_cell,
                   scroll_lock, win_cell, connection_status,
                   since_clear, ui_i, selected_window, is_maximized,
                   has_scrolled, init_done, content_len, last_key>>

\* scroll_log: let content_len = window.content.lock().unwrap().len()
MainScrollLen ==
    /\ uiPc = "scroll_len"
    /\ content_lock[selected_window] = "free"
    /\ content_len' = Len(content[selected_window])
    /\ uiPc' = "scroll_log"
    /\ UNCHANGED <<cfgVars, ingVars, content, content_lock, scroll_cell,
                   scroll_lock, win_cell, connection_status,
                   since_clear, ui_i, selected_window, is_maximized,
                   has_scrolled, init_done, frame, last_key>>

\* scroll_log with the scroll_position guard: page_size is window_height - 2
MainScrollLog(dir) ==
    /\ uiPc = "scroll_log"
    /\ scroll_lock[selected_window][sel_cell] = "free"
    /\ scroll_cell' = [scroll_cell EXCEPT ![selected_window][sel_cell] =
                          scroll_log_main(dir, @, content_len,
                                          SatSub(term_height, 2))]
    /\ loop_top(is_maximized, selected_window)
    /\ UNCHANGED <<cfgVars, ingVars, content, content_lock, scroll_lock,
                   win_cell, connection_status, since_clear,
                   selected_window, is_maximized, has_scrolled, init_done,
                   last_key>>

\* an arrow key while not is_scrolling: move_selection
MainKeyMove(dir) ==
    /\ uiPc = "poll"
    /\ ~is_scrolling
    /\ selected_window' = move_selection_grid(selected_window, dir,
                                              window_count)
    /\ loop_top(is_maximized, selected_window')
    /\ UNCHANGED <<cfgVars, ingVars, content, content_lock, scroll_cell,
                   scroll_lock, win_cell, connection_status,
                   since_clear, is_maximized, has_scrolled, init_done,
                   last_key>>

\* 'r' is read: clear_history starts with window.content.lock()
MainKeyClearRead ==
    /\ uiPc = "poll"
    /\ uiPc' = "clear"
    /\ frame' = NoFrame
    /\ UNCHANGED <<cfgVars, ingVars, content, content_lock, scroll_cell,
                   scroll_lock, win_cell, connection_status,
                   since_clear, ui_i, selected_window, is_maximized,
                   has_scrolled, init_done, content_len, last_key>>

\* clear_history with the content guard: content.clear(), and a NEW cell
\* holding 0 for window.scroll_position; the flags stay as they are
MainKeyClear ==
    /\ uiPc = "clear"
    /\ content_lock[selected_window] = "free"
    /\ content' = [content EXCEPT ![selected_window] = <<>>]
    /\ win_cell' = [win_cell EXCEPT ![selected_window] = 1]
    /\ scroll_cell' = [scroll_cell EXCEPT ![selected_window][1] = 0]
    /\ loop_top(is_maximized, selected_window)
    /\ UNCHANGED <<cfgVars, ingVars, content_lock, scroll_lock,
                   connection_status, since_clear, selected_window,
                   is_maximized, has_scrolled, init_done, last_key>>

MainUi ==
    \/ MainRenderLockContent \/ MainRenderDraw
    \/ MainPollNoKey \/ MainKeyQuit
    \/ MainKeyToggle \/ MainToggleLen \/ MainToggleScroll
    \/ MainKeyScroll \/ MainScrollLen
    \/ \E dir \in ScrollDirections : MainScrollLog(dir)
    \/ \E dir \in MoveDirections : MainKeyMove(dir)
    \/ MainKeyClearRead \/ MainKeyClear

MainNext == MainUi \/ \E s \in Sources : MainIngest(s)

MainSpec == Init /\ [][MainNext]_vars

\* ------------------------------------------- functions called on their own
\* every line of at most n graphemes
LinesUpTo(n) == UNION {[1..k -> Graphemes] : k \in 0..n}

\* the calls of wrap_line
WrapCalls ==
    {[fn |-> "wrap_line", line |-> ln, max_width |-> w, returned |-> FALSE,
      wrapped |-> <<>>] : ln \in LinesUpTo(MaxLineLen), w \in 0..MaxWidth}

\* the calls of main.rs create_layout
LayoutCalls ==
    {[fn |-> "create_layout",
      area |-> [x |-> 0, y |-> 0, width |-> w, height |-> h],
      window_count |-> n, returned |-> FALSE, chunks |-> <<>>] :
        n \in 1..MaxPanes, w \in 1..MaxSide, h \in 1..MaxSide}

\* the calls of format_line: its callers (ui.rs:190-192, main.rs:474-476 and
\* 544-546) hand it the sub-lines wrap_line returns, and wrap_line pushes a
\* sub-line only when it is not empty, so the line has at least one token
FormatCalls ==
    {[fn |-> "format_line", line |-> ln, returned |-> FALSE, spans |-> <<>>] :
        ln \in UNION {[1..k -> Tokens] : k \in 1..MaxTokens}}

\* the calls of main.rs move_selection: the panes and the selected one
MoveCalls ==
    {[fn |-> "move_selection", window_count |-> p[1], selected_window |-> p[2],
      returned |-> FALSE, direction |-> "none", before |-> p[2]] :
        p \in {q \in (1..MaxPanes) \X (0..(MaxPanes - 1)) : q[2] < q[1]}}

CallInit ==
    Started /\ call \in WrapCalls \cup LayoutCalls \cup FormatCalls \cup MoveCalls

\* wrap_line(line, max_width) returns
WrapLine ==
    /\ call.fn = "wrap_line" /\ ~call.returned
    /\ call' = [call EXCEPT !.returned = TRUE,
                            !.wrapped = wrap_line(call.line, call.max_width)]
    /\ UNCHANGED <<auth, max_history, stream, term_height, term_width,
                   is_maximized_flag, content, content_lock, scroll_cell,
                   scroll_lock, win_cell, connection_status, ingVars,
                   since_clear, uiPc, ui_i, selected_window, is_maximized,
                   has_scrolled, init_done, content_len, frame, last_key>>

\* create_layout(area, window_count) returns
CreateLayout ==
    /\ call.fn = "create_layout" /\ ~call.returned
    /\ call' = [call EXCEPT !.returned = TRUE,
                            !.chunks = create_layout_grid(call.area,
                                                          call.window_count)]
    /\ UNCHANGED <<auth, max_history, stream, term_height, term_width,
                   is_maximized_flag, content, content_lock, scroll_cell,
                   scroll_lock, win_cell, connection_status, ingVars,
                   since_clear, uiPc, ui_i, selected_window, is_maximized,
                   has_scrolled, init_done, content_len, frame, last_key>>

\* formatter.format_line(line) returns
FormatLine ==
    /\ call.fn = "format_line" /\ ~call.returned
    /\ call' = [call EXCEPT !.returned = TRUE,
                            !.spans = format_line(call.line)]
    /\ UNCHANGED <<auth, max_history, stream, term_height, term_width,
                   is_maximized_flag, content, content_lock, scroll_cell,
                   scroll_lock, win_cell, connection_status, ingVars,
                   since_clear, uiPc, ui_i, selected_window, is_maximized,
                   has_scrolled, init_done, content_len, frame, last_key>>

\* move_selection(app_state, direction) returns; the keys go on
MoveSelection(dir) ==
    /\ call.fn = "move_selection"
    /\ call' = [call EXCEPT !.returned = TRUE,
                            !.direction = dir,
                            !.before = call.selected_window,
                            !.selected_window =
                                move_selection_grid(call.selected_window, dir,
                                                    call.window_count)]
    /\ UNCHANGED <<auth, max_history, stream, term_height, term_width,
                   is_maximized_flag, content, content_lock, scroll_cell,
                   scroll_lock, win_cell, connection_status, ingVars,
                   since_clear, uiPc, ui_i, selected_window, is_maximized,
                   has_scrolled, init_done, content_len, frame, last_key>>

CallNext ==
    \/ WrapLine \/ CreateLayout \/ FormatLine
    \/ \E dir \in MoveDirections : MoveSelection(dir)

CallSpec == CallInit /\ [][CallNext]_vars

\* ======================================================================
\* Properties
\* ======================================================================
\* the last n elements of a sequence
LastN(seq, n) == SubSeq(seq, Len(seq) - n + 1, Len(seq))

\* the value of the scroll_position cell pane i's LogWindow points to
window_scroll(i) == scroll_cell[i][win_cell[i]]

\* wrapped sub-lines of pane i's current buffer at the current pane width
total_wrapped_lines(i) == Len(wrapped_content(content[i], term_width - 2))

\* rows inside pane i's border
pane_height(i) == area_height(i) - 2

\* the pane is shown in manual-scroll mode
manual_mode == is_maximized /\ has_scrolled

\* a step of the render thread that completes render_window for pane ui_i
RenderCompletes == uiPc = "render_draw" /\ uiPc' # "render_draw"

\* C1: whoever else than the ingestion thread of a source can take the
\* content lock (the lock is free or held by the render thread) finds at most
\* max_history lines: the over-long buffer between push and eviction exists
\* only while the ingestion thread holds the lock.
C1_BoundedUnderLock ==
    \A s \in Sources :
        content_lock[s] # "ing" => Len(content[s]) <= max_history[s]

\* C1 witness: the render thread holds the content lock of a source whose
\* buffer is full and has already evicted a line.
C1_Witness ==
    \E s \in Sources :
        /\ content_lock[s] = "ui"
        /\ Len(content[s]) = max_history[s]
        /\ nread[s] > max_history[s]

\* C2: outside an update in progress, the buffer is exactly the last
\* min(k, max_history) of the k lines pushed since the last clear, in the
\* order received.
C2_FifoLastLines ==
    \A s \in Sources :
        pc[s] # "evict" =>
            content[s] = LastN(since_clear[s],
                               Min(Len(since_clear[s]), max_history[s]))

\* C2 witness: more lines were pushed than max_history, and the update is over.
C2_Witness ==
    \E s \in Sources :
        /\ pc[s] # "evict"
        /\ Len(since_clear[s]) > max_history[s]
        /\ content[s] # <<>>

\* C3: a render_window call for a pane that is not in manual-scroll mode
\* leaves scroll_position = max(0, total_wrapped_lines - pane_height),
\* whatever it was before; with height 5 and 12 wrapped lines that is 7,
\* and with height >= total it is 0.
C3_AutoFollow ==
    [][ (RenderCompletes /\ ~manual_mode) =>
           /\ scroll_cell'[ui_i][win_cell[ui_i]] =
                 Max(0, total_wrapped_lines(ui_i) - pane_height(ui_i))
           /\ \A before \in 0..12 :
                 /\ render_scroll(before, 12, 5, is_maximized, FALSE) = 7
                 /\ render_scroll(before, 3, 5, is_maximized, FALSE) = 0
      ]_vars

\* C3 witness: an auto-follow frame was drawn whose scroll position differs
\* from the one the frame started with, with more wrapped lines than rows.
C3_Witness ==
    /\ frame.pane # -1
    /\ ~(frame.maximized /\ frame.scrolled)
    /\ frame.total_lines > frame.height
    /\ frame.height > 0
    /\ frame.title_scroll # frame.scroll
    /\ frame.scroll = frame.total_lines - frame.height

\* C4 (as claimed): in manual-scroll mode the active pane's scroll_position
\* is at most max(0, total_wrapped_lines - pane_height) for the current
\* buffer.
C4_ManualScrollClamped ==
    manual_mode =>
        window_scroll(selected_window) <=
            Max(0, total_wrapped_lines(selected_window)
                   - pane_height(selected_window))

\* C5 (as claimed): while the active pane stays in manual-scroll mode, only
\* scroll_log changes its scroll_position: ingestion steps and render frames
\* leave it unchanged.
C5_ManualScrollOnlyByKeys ==
    [][ (manual_mode /\ manual_mode' /\ uiPc # "scroll_log") =>
           scroll_cell'[selected_window][win_cell'[selected_window]] =
              window_scroll(selected_window)
      ]_vars

\* C6: once a source's status is Error it keeps that very status, its
\* session is over and stays over: no line is read or pushed, no connection
\* is attempted (the buffer changes only by being cleared by the user).
C6_ErrorIsTerminal ==
    [][ \A s \in Sources :
          /\ IsError(connection_status'[s]) => pc'[s] = "done"
          /\ IsError(connection_status[s]) =>
                /\ connection_status'[s] = connection_status[s]
                /\ pc[s] = "done" /\ pc'[s] = "done"
                /\ nread'[s] = nread[s]
                /\ tcp_attempted'[s] = tcp_attempted[s]
                /\ content'[s] \in {content[s], <<>>}
      ]_vars

\* C6 witness: a source failed while reading, after it had pushed a line,
\* and the render thread went on to draw a frame.
C6_Witness ==
    \E s \in Sources :
        /\ connection_status[s] = Error("Read Err")
        /\ pc[s] = "done"
        /\ nread[s] > 0
        /\ frame.pane = s

\* the ways a session fails
Failures == {"connect", "session", "handshake", "auth", "no_auth", "exec", "read"}

\* C7 (as claimed): a session that ended in a failure left the status
\* Error(message).
C7_FailureSetsError ==
    \A s \in Sources :
        (pc[s] = "done" /\ outcome[s] \in Failures) =>
            IsError(connection_status[s])

\* C8 (as claimed): a source with neither password nor key never has a
\* network connection attempted, and its session ends with the status
\* Error("No authentication method provided").
C8_NoAuthBeforeConnect ==
    \A s \in Sources :
        auth[s] = "none" =>
            /\ ~tcp_attempted[s]
            /\ pc[s] = "done" =>
                  connection_status[s] =
                     Error("No authentication method provided")

\* the remote tail of source s has been started
tail_started(s) ==
    \/ pc[s] \in {"mark_connected", "reset_scroll", "reset_content", "read",
                  "evict"}
    \/ pc[s] = "done" /\ outcome[s] \in {"eof", "read"}

\* C9 (as claimed): a frame shows Connected only for a source whose
\* handshake, authentication and remote exec have succeeded.
C9_ConnectedOnlyAfterExec ==
    (frame.pane # -1 /\ frame.status = Connected) => tail_started(frame.pane)

\* C10 (as claimed): render_window always completes, and a frame drawn for
\* a source in Error has the error message among its visible lines.
C10_ErrorAlwaysVisible ==
    /\ uiPc # "panic"
    /\ (frame.pane # -1 /\ IsError(frame.status)) =>
          \E k \in 1..Len(frame.text) :
              /\ k <= frame.height
              /\ frame.text[k] = error_line(frame.status.msg)

\* C11 (ui.rs run_ui), what holds there: the toggle key (Enter or 'm') flips
\* is_maximized and resets has_scrolled, and the render_window call for the
\* active pane of the frame that follows leaves scroll_position =
\* max(0, total_wrapped_lines - pane_height) with has_scrolled still false
\* (auto-follow in effect).
C11_ToggleSnapsToTail ==
    [][ /\ (uiPc = "poll" /\ uiPc' = "toggle_len") =>
              /\ is_maximized' = ~is_maximized
              /\ ~has_scrolled'
        /\ (RenderCompletes /\ last_key = "toggle" /\ ui_i = selected_window) =>
              /\ ~has_scrolled /\ ~has_scrolled'
              /\ scroll_cell'[selected_window][win_cell'[selected_window]] =
                    Max(0, total_wrapped_lines(selected_window)
                           - pane_height(selected_window))
      ]_vars

\* C11 (main.rs run_ui): the toggle key flips is_maximized and leaves the
\* manual-scroll flag (is_scrolling) false, and the renderer's pass over the
\* active pane in the frame that follows leaves scroll_position =
\* max(0, total_wrapped_lines - pane_height) with is_scrolling still false.
C11_ToggleSnapsToTailMain ==
    [][ /\ (uiPc = "poll" /\ uiPc' = "toggle_len") =>
              /\ is_maximized' = ~is_maximized
              /\ ~is_scrolling'
        /\ (RenderCompletes /\ last_key = "toggle" /\ ui_i = selected_window) =>
              /\ ~is_scrolling /\ ~is_scrolling'
              /\ scroll_cell'[selected_window][win_cell'[selected_window]] =
                    Max(0, Len(wrapped_content(
                                   content[selected_window],
                                   main_rect(selected_window).width - 2))
                           - (main_rect(selected_window).height - 2))
      ]_vars

\* C11 (main.rs run_ui), what holds: the toggle key flips is_maximized and
\* is_scrolling together, the arm then writes content_len - 1 for the length
\* it read, and a renderer's pass over a pane changes no scroll_position.
C11_ToggleWritesLastIndexMain ==
    [][ /\ (uiPc = "poll" /\ uiPc' = "toggle_len") =>
              /\ is_maximized' = ~is_maximized
              /\ is_scrolling' = is_maximized'
        /\ (uiPc = "toggle_scroll" /\ uiPc' # "toggle_scroll") =>
              scroll_cell'[selected_window][win_cell[selected_window]] =
                  SatSub(content_len, 1)
        /\ RenderCompletes => scroll_cell' = scroll_cell
      ]_vars

\* C11 (ui.rs run_ui), the case reached: the frame after a toggle was drawn
\* for the active pane, now maximized, with more wrapped lines than rows, and the position moved from
\* the one the toggle handler wrote to the tail.
C11_Witness ==
    /\ frame.pane = selected_window
    /\ frame.key = "toggle"
    /\ frame.maximized
    /\ frame.total_lines > frame.height
    /\ frame.title_scroll # frame.scroll
    /\ frame.scroll = frame.total_lines - frame.height

\* C12: the clear-history key ('r') leaves the active pane's buffer empty,
\* its scroll_position 0 and has_scrolled false, and changes no other pane's
\* buffer or scroll position; a line ingested later is appended to the
\* buffer as the clear left it.
C12_ClearHistory ==
    [][ /\ KeyClear =>
              /\ content'[selected_window] = <<>>
              /\ scroll_cell'[selected_window][win_cell'[selected_window]] = 0
              /\ ~has_scrolled'
              /\ \A o \in Sources \ {selected_window} :
                    /\ content'[o] = content[o]
                    /\ scroll_cell'[o][win_cell'[o]] = window_scroll(o)
        /\ \A s \in Sources :
              (pc[s] = "read" /\ pc'[s] = "evict") =>
                  content'[s] = Append(content[s], Line(stream[s], nread'[s]))
      ]_vars

\* C12 witness: the second pane was cleared with 'r' after lines had
\* arrived, and holds exactly the lines that arrived since.
C12_Witness ==
    /\ win_cell[1] = 1
    /\ content[1] # <<>>
    /\ content[1] = since_clear[1]
    /\ Len(since_clear[1]) < nread[1]
    /\ pc[1] = "read"
    /\ content[0] # <<>>

\* the sub-lines joined in order
RECURSIVE concat(_)
concat(seqs) == IF seqs = <<>> THEN <<>> ELSE Head(seqs) \o concat(Tail(seqs))

\* total display width of a sub-line
RECURSIVE display_width(_)
display_width(sub) ==
    IF sub = <<>> THEN 0 ELSE Width(Head(sub)) + display_width(Tail(sub))

\* C13: for every line and every max width, 0 included, the sub-lines
\* wrap_line returns, joined in order, are the line itself.
C13_WrapRoundTrip ==
    (call.fn = "wrap_line" /\ call.returned) =>
        concat(call.wrapped) = call.line

\* C13 witness: a line of distinct graphemes, zero-width, narrow and wide,
\* was wrapped into several sub-lines.
C13_Witness ==
    /\ call.fn = "wrap_line" /\ call.returned
    /\ Len(call.wrapped) >= 2
    /\ Len(call.line) = MaxLineLen
    /\ \E i, j, k \in 1..Len(call.line) :
          Width(call.line[i]) = 0 /\ Width(call.line[j]) = 1
          /\ Width(call.line[k]) = 2

\* C14: every sub-line wrap_line returns is at most max_width columns wide,
\* unless it is one single grapheme that is itself wider than max_width.
C14_WrapWidth ==
    (call.fn = "wrap_line" /\ call.returned) =>
        \A k \in 1..Len(call.wrapped) :
            \/ display_width(call.wrapped[k]) <= call.max_width
            \/ /\ Len(call.wrapped[k]) = 1
               /\ Width(call.wrapped[k][1]) > call.max_width

\* C14 witness: a wide glyph that does not fit was emitted alone between two
\* sub-lines that fit.
C14_Witness ==
    /\ call.fn = "wrap_line" /\ call.returned
    /\ call.max_width = 1
    /\ Len(call.wrapped) = 3
    /\ Len(call.wrapped[2]) = 1
    /\ Width(call.wrapped[2][1]) = 2
    /\ display_width(call.wrapped[1]) = 1
    /\ display_width(call.wrapped[3]) = 1

\* the cell of row r and column c (from 0) of the rows x cols grid on area
grid_cell(area, rows, cols, r, c) ==
    split(split(area, "Vertical", rows)[r + 1], "Horizontal", cols)[c + 1]

\* C15: for n >= 1 panes create_layout takes rows = ceil(sqrt(n)) and
\* cols = ceil(n / rows), so that rows * cols >= n, and returns exactly n
\* rectangles, the cells of the grid in row-major order: chunks[i] exists
\* for every pane i < n.
C15_GridLayout ==
    (call.fn = "create_layout" /\ call.returned) =>
        LET n == call.window_count
            rows == ceil_sqrt(n)
            cols == ceil_div(n, rows)
        IN  /\ rows * rows >= n /\ (rows - 1) * (rows - 1) < n
            /\ rows * cols >= n /\ rows * (cols - 1) < n
            /\ Len(call.chunks) = n
            /\ \A i \in 0..(n - 1) :
                  call.chunks[i + 1] =
                     grid_cell(call.area, rows, cols, i \div cols, i % cols)

\* C15 witness: five panes were laid out on a 3 x 2 grid, one cell dropped.
C15_Witness ==
    /\ call.fn = "create_layout" /\ call.returned
    /\ call.window_count = 5
    /\ Len(call.chunks) = 5
    /\ call.area.width >= 4 /\ call.area.height >= 3
    /\ call.chunks[5].y > call.chunks[4].y
    /\ call.chunks[4].x > call.chunks[3].x

\* the point (px, py) lies in the rectangle
inside(rect, px, py) ==
    /\ rect.x <= px /\ px < rect.x + rect.width
    /\ rect.y <= py /\ py < rect.y + rect.height

\* C16 (as claimed): the rectangles create_layout returns tile the outer
\* rectangle: every point of it lies in exactly one of them.
C16_LayoutTiles ==
    (call.fn = "create_layout" /\ call.returned) =>
        \A px \in call.area.x..(call.area.x + call.area.width - 1),
           py \in call.area.y..(call.area.y + call.area.height - 1) :
            Cardinality({k \in 1..Len(call.chunks) :
                            inside(call.chunks[k], px, py)}) = 1

\* format_line was called on a line and has returned
formatted == call.fn = "format_line" /\ call.returned

\* C17: a line no rule matches comes back as one single unstyled segment
\* that is the line.
C17_UnmatchedIsOneSegment ==
    (formatted /\ find_matches(call.line) = <<>>) =>
        call.spans = <<raw(call.line)>>

\* C17 witness: a line with both braces, but no closing one after the
\* opening one, came back as one unstyled segment.
C17_Witness ==
    /\ formatted
    /\ \E i, j \in 1..Len(call.line) :
          i < j /\ call.line[i] = "}" /\ call.line[j] = "{"
    /\ call.spans = <<raw(call.line)>>

\* the texts of the segments joined in order
RECURSIVE concat_text(_)
concat_text(spans) ==
    IF spans = <<>> THEN <<>> ELSE Head(spans).text \o concat_text(Tail(spans))

\* offset at which segment k starts
offset(spans, k) == Len(concat_text(SubSeq(spans, 1, k - 1)))

\* no two matches share a position of the line
non_overlapping(matches) ==
    \A j, k \in 1..Len(matches) :
        j # k => \/ matches[j].end <= matches[k].start
                 \/ matches[k].end <= matches[j].start

\* C18: when the matches of the rules do not overlap, the segments
\* partition the line: joined in order they are the line, none is empty,
\* every match is exactly one segment with the style of its rule, every
\* styled segment is a match, and what lies between two matches or after the
\* last one is one single unstyled segment.
C18_SegmentsPartition ==
    (formatted /\ non_overlapping(find_matches(call.line))) =>
        LET spans == call.spans
            matches == find_matches(call.line)
        IN  /\ concat_text(spans) = call.line
            /\ \A k \in 1..Len(spans) : spans[k].text # <<>>
            /\ \A j \in 1..Len(matches) :
                  \E k \in 1..Len(spans) :
                      /\ offset(spans, k) = matches[j].start
                      /\ offset(spans, k + 1) = matches[j].end
                      /\ spans[k].style = matches[j].style
            /\ \A k \in 1..Len(spans) :
                  spans[k].style # "raw" =>
                      \E j \in 1..Len(matches) :
                          /\ offset(spans, k) = matches[j].start
                          /\ offset(spans, k + 1) = matches[j].end
                          /\ spans[k].style = matches[j].style
            /\ \A k \in 1..(Len(spans) - 1) :
                  ~(spans[k].style = "raw" /\ spans[k + 1].style = "raw")

\* C18 witness: INFO, a gap, WARN: the later rule matched first in the
\* line, and three segments came back.
C18_Witness ==
    /\ formatted
    /\ Len(call.spans) = 3
    /\ call.spans[1].style = "Blue"
    /\ call.spans[2].style = "raw"
    /\ call.spans[3].style = "Yellow"

\* C19 (as claimed): a step of the session of source a changes no buffer,
\* status or scroll position of another source b, and whatever has failed
\* in a session the render loop goes on drawing the panes.
C19_SessionIsolation ==
    /\ [][ \A a \in Sources :
              Ingest(a) =>
                  \A b \in Sources \ {a} :
                      /\ content'[b] = content[b]
                      /\ connection_status'[b] = connection_status[b]
                      /\ scroll_cell'[b] = scroll_cell[b]
          ]_vars
    /\ []((\E a \in Sources : IsError(connection_status[a])) => uiPc # "panic")

\* the part of C19 that holds: a session writes the cells of its own source
\* only
C19_OwnCellsOnly ==
    [][ \A a \in Sources :
          Ingest(a) =>
              \A b \in Sources \ {a} :
                  /\ content'[b] = content[b]
                  /\ connection_status'[b] = connection_status[b]
                  /\ scroll_cell'[b] = scroll_cell[b]
                  /\ content_lock'[b] = content_lock[b]
                  /\ scroll_lock'[b] = scroll_lock[b]
      ]_vars

\* the render thread waits in render_window for the scroll_position of pane
\* ui_i, which the session of that source holds while it waits for the
\* content lock the render thread holds
render_blocked_for_ever ==
    /\ uiPc = "render_draw"
    /\ scroll_lock[ui_i][win_cell[ui_i]] = "ing"
    /\ pc[ui_i] = "reset_content"
    /\ content_lock[ui_i] = "ui"

\* C20 (as claimed): whatever the sessions are doing, the render/input loop
\* can always get back to the point where it polls the keyboard, so that a
\* quit key is processed and the loop ends: it is never stuck for ever
\* inside a frame and never dies in one.
C20_QuitAlwaysProcessed ==
    /\ ~render_blocked_for_ever
    /\ uiPc # "panic"

\* the guards the render thread holds between two of its steps: the content
\* guard of render_window (every other guard of that thread is taken and
\* dropped within one step)
ui_holds == {<<"content", s, 0>> : s \in {t \in Sources : content_lock[t] = "ui"}}

\* the mutex the render thread locks next
ui_next_lock ==
    CASE uiPc = "render" -> {<<"content", ui_i, 0>>}
      [] uiPc = "render_draw" -> {<<"scroll_position", ui_i, win_cell[ui_i]>>}
      [] uiPc \in {"toggle_len", "scroll_len"} ->
            {<<"content", selected_window, 0>>}
      [] uiPc \in {"init_once", "clear"} -> {<<"content", clear_target, 0>>}
      [] uiPc \in {"toggle_scroll", "scroll_log"} ->
            {<<"scroll_position", selected_window, sel_cell>>}
      [] OTHER -> {}

\* the guards the session of source s holds between two of its steps
ing_holds(s) ==
    {<<"content", s, 0>> : t \in {u \in {s} : content_lock[u] = "ing"}}
    \cup {<<"scroll_position", s, 0>> : t \in {u \in {s} : scroll_lock[u][0] = "ing"}}

\* the mutex the session of source s locks next (in "read": once read_line
\* has returned a line)
ing_next_lock(s) ==
    CASE pc[s] = "reset_scroll" -> {<<"scroll_position", s, 0>>}
      [] pc[s] = "reset_content" -> {<<"content", s, 0>>}
      [] pc[s] = "read" -> {<<"content", s, 0>>}
      [] pc[s] = "evict" /\ ~over_limit(Len(content[s]), max_history[s]) ->
            {<<"scroll_position", s, 0>>}
      [] OTHER -> {}

\* C21 (as claimed): every critical section is lock, mutate, unlock on one
\* cell: a thread that holds the guard of one cell does not go on to lock
\* another cell (nor draw) before it has dropped that guard.
C21_OneCellAtATime ==
    /\ ui_holds # {} => ui_next_lock = {}
    /\ \A s \in Sources : ing_holds(s) # {} => ing_next_lock(s) = {}

\* C22 (as claimed): the session of a source and the render/input thread
\* never wait for each other: there is no state in which each of the two is
\* about to lock a mutex the other one holds.
C22_NoDeadlock ==
    \A s \in Sources :
        ~ /\ ui_next_lock # {} /\ ui_next_lock \subseteq ing_holds(s)
          /\ ing_next_lock(s) # {} /\ ing_next_lock(s) \subseteq ui_holds

\* C23 (as claimed): the buffer and the status of a source are written by
\* the session of that source only, and the scroll state (scroll_position,
\* has_scrolled) by the render/input thread only: a step of the render/input
\* thread changes no buffer and no status, and a step of a session changes
\* no scroll position and not has_scrolled.
C23_SingleWriter ==
    [][ /\ Ui => /\ content' = content
                 /\ connection_status' = connection_status
        /\ \A s \in Sources :
              Ingest(s) => /\ scroll_cell' = scroll_cell
                           /\ has_scrolled' = has_scrolled
      ]_vars

\* the part of C23 that holds: the status of a source changes in steps of
\* the session of that source only, and so does the buffer unless it is
\* emptied by clear_history
C23_StatusOwned ==
    [][ \A s \in Sources :
          /\ connection_status'[s] # connection_status[s] => Ingest(s)
          /\ content'[s] # content[s] =>
                \/ Ingest(s)
                \/ content'[s] = <<>> /\ (KeyClear \/ InitOnce)
      ]_vars

\* what the session of source s is observed to do: where it stands, how
\* many lines it has read, how it ended, and the status it has published
session_view(s) ==
    <<pc[s], nread[s], outcome[s], tcp_attempted[s], connection_status[s]>>

\* the status a session writes from position p of connect_and_tail
status_written(p) ==
    CASE p = "connect" -> Error("Connect Err")
      [] p = "handshake" -> Error("Handshake Err")
      [] p = "mark_connected" -> Connected
      [] p = "read" -> Error("Read Err")

\* C24: no key reaches a session.  No step of the render/input thread (each
\* of them changes that thread's own state) moves a session (position, lines
\* read, outcome, status); the line a session appends is the next line of its own
\* stream, and the status it writes is the one its own position in
\* connect_and_tail determines, whatever is_maximized, has_scrolled and
\* selected_window are.  Two runs with the same stream events therefore
\* append the same lines and publish the same statuses, whatever keys are
\* pressed.
C24_IngestionDecoupled ==
    [][ /\ \A s \in Sources :
              /\ (pc[s] = "read" /\ pc'[s] = "evict") =>
                    content'[s] = Append(content[s],
                                         Line(stream[s], nread[s] + 1))
              /\ session_view(s)' # session_view(s) => UNCHANGED uiVars
              /\ connection_status'[s] # connection_status[s] =>
                    connection_status'[s] = status_written(pc[s])
      ]_vars

\* C24 witness: keys of every kind were pressed (a pane is maximized, was
\* scrolled by hand and has been cleared), and the session of that pane has
\* appended every line of its stream and ended in a read error.
C24_Witness ==
    /\ is_maximized /\ has_scrolled
    /\ win_cell[selected_window] = 1
    /\ selected_window = 1
    /\ nread[selected_window] = MaxLines
    /\ connection_status[selected_window] = Error("Read Err")

\* C25: a navigation key while maximized (the scroll_log step) changes the
\* scroll position of the active pane only, nothing else of the panes, and
\* has_scrolled is true afterwards if the position differs from the one
\* scroll_log found, and is what it was if the position is the same; Left
\* and Right while maximized change nothing.
C25_NavigationKeys ==
    [][ /\ (uiPc = "scroll_log" /\ uiPc' # "scroll_log") =>
              /\ is_maximized /\ is_maximized'
              /\ selected_window' = selected_window
              /\ content' = content /\ win_cell' = win_cell
              /\ \A o \in Sources \ {selected_window} :
                    scroll_cell'[o] = scroll_cell[o]
              /\ has_scrolled' =
                    IF scroll_cell'[selected_window][sel_cell]
                          # window_scroll(selected_window)
                    THEN TRUE ELSE has_scrolled
        /\ KeySideways =>
              UNCHANGED <<content, scroll_cell, win_cell, connection_status,
                          selected_window, is_maximized, has_scrolled>>
      ]_vars

\* C25 witness: a navigation key has moved the maximized second pane off
\* the top while its buffer held lines, and the handler is over.
C25_Witness ==
    /\ is_maximized /\ has_scrolled
    /\ selected_window = 1
    /\ uiPc = "render" /\ frame = NoFrame
    /\ content[1] # <<>>
    /\ window_scroll(1) > 0

\* the panes of row r, and of column c, of the grid of n panes
row_panes(n, cols, r) == {i \in 0..(n - 1) : i \div cols = r}
col_panes(n, cols, c) == {i \in 0..(n - 1) : i % cols = c}
\* least and greatest element of a non-empty set of numbers
least(S) == CHOOSE i \in S : \A j \in S : i <= j
greatest(S) == CHOOSE i \in S : \A j \in S : i >= j

\* where a move that wraps among the existing panes of the row or column
\* takes the selection
wrapped_move(b, dir, n) ==
    LET cols == ceil_div(n, ceil_sqrt(n))
        row == row_panes(n, cols, b \div cols)
        col == col_panes(n, cols, b % cols)
    IN  CASE dir = "Right" -> IF b + 1 \in row THEN b + 1 ELSE least(row)
          [] dir = "Left" -> IF b - 1 \in row THEN b - 1 ELSE greatest(row)
          [] dir = "Down" -> IF b + cols \in col THEN b + cols ELSE least(col)
          [] dir = "Up" -> IF b - cols \in col THEN b - cols ELSE greatest(col)

\* C26 (as claimed): on the grid, for every number of panes and every
\* selected pane, a move goes to the neighbour in the row or column, and
\* past the last existing pane of the row or column to its first one (before
\* the first to the last).
C26_SelectionWraps ==
    (call.fn = "move_selection" /\ call.returned) =>
        call.selected_window =
            wrapped_move(call.before, call.direction, call.window_count)

\* C27: with at least one source, whatever keys are pressed (moves, toggles,
\* clears), selected_window is the index of a pane, and so is the index of
\* the pane being drawn: log_windows[selected_window] is in bounds, and the
\* `window_count - 1` of move_selection does not underflow.
C27_SelectionInBounds ==
    /\ window_count >= 1
    /\ selected_window \in 0..(window_count - 1)
    /\ ui_i \in 0..(window_count - 1)
    /\ is_maximized /\ uiPc \in {"render", "render_draw"} => ui_i = selected_window

\* C27, the grid of main.rs: after any sequence of moves the selection is
\* the index of a pane, and rows and cols are at least 1, so that neither
\* `/ cols`, `% cols`, `% rows` divides by zero nor `cols - 1`, `rows - 1`
\* underflows.
C27_GridSelectionInBounds ==
    call.fn = "move_selection" =>
        LET rows == ceil_sqrt(call.window_count)
            cols == ceil_div(call.window_count, rows)
        IN  /\ rows >= 1 /\ cols >= 1
            /\ call.selected_window \in 0..(call.window_count - 1)
            /\ call.selected_window \div cols < rows

\* C27 witness: the selection was moved to the last pane, which was then
\* maximized, cleared and drawn.
C27_Witness ==
    /\ selected_window = window_count - 1
    /\ is_maximized
    /\ win_cell[selected_window] = 1
    /\ frame.pane = selected_window

\* C28: has_scrolled implies is_maximized in every state of the dashboard,
\* so that every pane drawn in the grid is drawn in auto-follow, at
\* max(0, total_wrapped_lines - pane_height).
C28_ScrolledOnlyMaximized ==
    /\ has_scrolled => is_maximized
    /\ (frame.pane # -1 /\ ~frame.maximized) =>
          /\ ~frame.scrolled
          /\ frame.scroll = Max(0, frame.total_lines - frame.height)

\* C28 witness: a frame of the maximized pane was drawn in manual-scroll
\* mode, above the tail.
C28_Witness ==
    /\ has_scrolled /\ is_maximized
    /\ frame.pane = selected_window
    /\ frame.scrolled
    /\ frame.scroll < frame.total_lines - frame.height

\* every line of the buffer before is still there after, in place
keeps_lines(before, after) ==
    /\ Len(after) >= Len(before)
    /\ SubSeq(after, 1, Len(before)) = before

\* C29 (as claimed): a line a session has appended leaves the buffer only
\* when update_content evicts it because the buffer is over max_history, or
\* when the user presses the clear-history key on that pane; the one-time
\* step after the first frame removes nothing.
C29_NoLineLost ==
    [][ \A s \in Sources :
          \/ keeps_lines(content[s], content'[s])
          \/ /\ pc[s] = "evict"
             /\ over_limit(Len(content[s]), max_history[s])
             /\ content'[s] = Tail(content[s])
          \/ KeyClear /\ s = selected_window
      ]_vars

\* C30 (as claimed): the scroll_position cell the session of a source writes
\* (the one main created) is the cell the pane's LogWindow points to, which
\* render_window and the key handlers lock, read and write.
C30_OneScrollCell ==
    \A s \in Sources : win_cell[s] = 0

\* C31 (as claimed): for every pane rectangle the layout hands to
\* render_window, `width - 2` and `height - 2` do not underflow, the index
\* `height - 1` of the forced error line does not underflow either, so that
\* render_window completes, and the error line of a frame lies within the
\* visible lines.
C31_RenderInBounds ==
    /\ term_width >= 2
    /\ \A i \in Sources : area_height(i) >= 2
    /\ uiPc # "panic"
    /\ (frame.pane # -1 /\ IsError(frame.status)) =>
          /\ frame.height >= 1
          /\ Len(frame.text) <= frame.height

====
